---- MODULE Spec2Model ----
(***************************************************************************)
(* winston-loggly-syslog: the Loggly transport of src/index.js.            *)
(*                                                                         *)
(* The transport object (self) owns one field `stream` that names the TLS  *)
(* socket returned by the latest tls.connect call.  Sockets are modelled   *)
(* as slots with a life cycle driven by the network:                       *)
(*   free -> connecting -> connected -> ended -> free                      *)
(* A socket is writable from tls.connect until it ends or is destroyed by  *)
(* an error (node's stream.writable); data written before the handshake    *)
(* completes is queued inside the socket (pend) and reaches the wire when  *)
(* the handshake completes, ahead of anything written later.               *)
(* Observers are assumed to be registered for 'error' and 'connect', and   *)
(* tls.connect reports connection failures through the 'error' event.      *)
(***************************************************************************)
EXTENDS Integers, Sequences, FiniteSets, TLC

\* ---------------------------------------------------------------- bounds
MaxLogs == 3
MaxStreams == 2
MaxRetries == 3

Slots == 1..MaxStreams
NoStream == 0

\* counted failures explored per outage: enough for one backoff decay step
RetryCap(decay) == IF decay + 1 > MaxRetries THEN decay + 1 ELSE MaxRetries

\* ------------------------------------------------------- option handling
\* `options.x || d': a falsy option (0, "") selects the default
OrDefault(x, d) == IF x = 0 THEN d ELSE x

DefaultAttemptsBeforeDecay == 5
DefaultMaximumAttempts == 25
DefaultConnectionDelay == 1000
DefaultMaxDelayBetweenReconnection == 60000
ConnectedDelay == 1000

\* the option objects handed to the constructor
OptionSets ==
  { [ token |-> t, attemptsBeforeDecay |-> 1, maximumAttempts |-> 1,
      connectionDelay |-> 500, maxDelayBetweenReconnection |-> 1500 ] : t \in {"", "abc"} }
  \cup
  { [ token |-> t, attemptsBeforeDecay |-> 2, maximumAttempts |-> 2,
      connectionDelay |-> 0, maxDelayBetweenReconnection |-> 1500 ] : t \in {"", "abc"} }

\* tunings for the backoff policy: the defaults (`new Loggly({token: 'abc'})'),
\* a maximum below the 1000 ms of onConnected, and the tunings above
BackoffOptionSets ==
  { [ token |-> "abc", attemptsBeforeDecay |-> 0, maximumAttempts |-> 0,
      connectionDelay |-> 0, maxDelayBetweenReconnection |-> 0 ],
    [ token |-> "abc", attemptsBeforeDecay |-> 1, maximumAttempts |-> 2,
      connectionDelay |-> 200, maxDelayBetweenReconnection |-> 400 ] }
  \cup { o \in OptionSets : o.token # "" }

NoOptions ==
  [ token |-> "", attemptsBeforeDecay |-> 0, maximumAttempts |-> 0,
    connectionDelay |-> 0, maxDelayBetweenReconnection |-> 0 ]

VARIABLES
  pc,              \* "new", "failed" (constructor threw) or "ready"
  options,         \* the options the transport was constructed with
  attemptsBeforeDecay, maximumAttempts, maxDelayBetweenReconnection,
  connectionDelay, currentRetries, totalRetries,
  buffer,          \* self.buffer: the encoded messages awaiting a connection
  loggingEnabled,  \* self.loggingEnabled
  stream,          \* self.stream: slot of the latest socket, NoStream if none
  sock,            \* life-cycle state of every socket slot
  pend,            \* data written to a socket before its handshake completed
  wire,            \* the messages received by the remote endpoint, in order
  timers,          \* number of pending reconnect timers
  logCount,        \* number of log calls so far; call n logs message n
  lastOp,          \* the handler that ran last
  emitted,         \* notifications emitted by the handler that ran last
  cb,              \* callback invocations made by the handler that ran last
  thrown,          \* error thrown by the constructor, "" if none
  owed,            \* history: messages logged while not connected and while
                   \* buffering was enabled, since the last handshake success
  enc              \* the message encoder's call and result (EncSpec)

vars == << pc, options, attemptsBeforeDecay, maximumAttempts,
           maxDelayBetweenReconnection, connectionDelay, currentRetries,
           totalRetries, buffer, loggingEnabled, stream, sock, pend, wire,
           timers, logCount, lastOp, emitted, cb, thrown, owed, enc >>

config == << options, attemptsBeforeDecay, maximumAttempts,
             maxDelayBetweenReconnection >>

EncIdle == [ phase |-> "idle" ]

\* ------------------------------------------------------------- helpers
Open(sk) == { s \in Slots : sk[s] \in {"connecting", "connected"} }
InUse(sk) == { s \in Slots : sk[s] # "free" }
Occupancy == Cardinality(InUse(sock)) + timers

Connected(s, sk) == s # NoStream /\ sk[s] = "connected"

\* this.stream && this.stream.writable
writable(s, sk) == s # NoStream /\ sk[s] \in {"connecting", "connected"}

\* the slot tls.connect hands out: the lowest free one
NewSlot(sk) == CHOOSE s \in Slots : sk[s] = "free" /\ \A t \in Slots : sk[t] = "free" => s <= t

\* stream.write(data) on slot s: straight to the wire once the handshake is
\* done, queued in the socket while it is still connecting, lost otherwise
WireAfterWrite(s, sk, w, data) ==
  IF s # NoStream /\ sk[s] = "connected" THEN w \o data ELSE w
PendAfterWrite(s, sk, p, data) ==
  IF s # NoStream /\ sk[s] = "connecting" THEN [p EXCEPT ![s] = @ \o data] ELSE p

\* ------------------------------------------------------------- Init
NotConstructed ==
  /\ pc = "new"
  /\ options = NoOptions
  /\ attemptsBeforeDecay = 0
  /\ maximumAttempts = 0
  /\ maxDelayBetweenReconnection = 0
  /\ connectionDelay = 0
  /\ currentRetries = 0
  /\ totalRetries = 0
  /\ buffer = << >>
  /\ loggingEnabled = FALSE
  /\ stream = NoStream
  /\ sock = [s \in Slots |-> "free"]
  /\ pend = [s \in Slots |-> << >>]
  /\ wire = << >>
  /\ timers = 0
  /\ logCount = 0
  /\ lastOp = "new"
  /\ emitted = << >>
  /\ cb = << >>
  /\ thrown = ""
  /\ owed = {}

Init == NotConstructed /\ enc = EncIdle

\* ------------------------------------------------------------- constructor
missingToken_unchecked(opts) == FALSE

\* if (!self.token) throw
missingToken(opts) == opts.token = ""

Construct(opts) ==
  /\ pc = "new"
  /\ options' = opts
  /\ lastOp' = "construct"
  /\ attemptsBeforeDecay' = OrDefault(opts.attemptsBeforeDecay, DefaultAttemptsBeforeDecay)
  /\ maximumAttempts' = OrDefault(opts.maximumAttempts, DefaultMaximumAttempts)
  /\ connectionDelay' = OrDefault(opts.connectionDelay, DefaultConnectionDelay)
  /\ maxDelayBetweenReconnection' =
        OrDefault(opts.maxDelayBetweenReconnection, DefaultMaxDelayBetweenReconnection)
  /\ currentRetries' = 0
  /\ totalRetries' = 0
  /\ buffer' = << >>
  /\ loggingEnabled' = TRUE
  /\ IF missingToken(opts)
       THEN /\ pc' = "failed"
            /\ thrown' = "Missing required parameters: token"
            /\ UNCHANGED << stream, sock, pend >>
       ELSE /\ pc' = "ready"
            /\ thrown' = ""
            \* connectStream()
            /\ stream' = NewSlot(sock)
            /\ sock' = [sock EXCEPT ![NewSlot(sock)] = "connecting"]
            /\ pend' = [pend EXCEPT ![NewSlot(sock)] = << >>]
  /\ UNCHANGED << wire, timers, logCount, emitted, cb, owed, enc >>

\* ------------------------------------------------------------- onConnected
enabledOnConnect_kept(enabled) == enabled

\* self.loggingEnabled = true
enabledOnConnect(enabled) == TRUE

bufferAfterFlush_kept(b) == b

\* self.buffer = ''
bufferAfterFlush(b) == << >>

\* the handshake of socket s completes: the socket flushes what was queued in
\* it, then the secureConnect listener onConnected runs
StreamConnect(s) ==
  /\ pc = "ready"
  /\ sock[s] = "connecting"
  /\ lastOp' = "connect"
  /\ LET sk == [sock EXCEPT ![s] = "connected"]
         w1 == wire \o pend[s]
         p1 == [pend EXCEPT ![s] = << >>]
     IN /\ sock' = sk
        /\ loggingEnabled' = enabledOnConnect(loggingEnabled)
        /\ currentRetries' = 0
        /\ totalRetries' = 0
        /\ connectionDelay' = ConnectedDelay
        /\ emitted' = << "connect" >>
        /\ IF buffer # << >>
             THEN /\ wire' = WireAfterWrite(stream, sk, w1, buffer)
                  /\ pend' = PendAfterWrite(stream, sk, p1, buffer)
                  /\ buffer' = bufferAfterFlush(buffer)
             ELSE /\ wire' = w1
                  /\ pend' = p1
                  /\ buffer' = buffer
  /\ cb' = << >>
  /\ owed' = {}
  /\ UNCHANGED << pc, config, stream, timers, logCount, thrown, enc >>

\* ------------------------------------------------------------- 'error'
setTimeout_dropped(t) == t

\* setTimeout(function() {...}, self.connectionDelay): one more pending timer
setTimeout(t) == t + 1

StreamError(s) ==
  /\ pc = "ready"
  /\ sock[s] \in {"connecting", "connected", "ended"}
  /\ totalRetries + timers < RetryCap(attemptsBeforeDecay)
  /\ lastOp' = "error"
  /\ sock' = [sock EXCEPT ![s] = "free"]
  /\ pend' = [pend EXCEPT ![s] = << >>]
  /\ emitted' = << "error" >>
  /\ timers' = setTimeout(timers)
  /\ cb' = << >>
  /\ UNCHANGED << pc, config, connectionDelay, currentRetries, totalRetries,
                  buffer, loggingEnabled, stream, wire, logCount, thrown, owed, enc >>

\* ------------------------------------------------------------- timer
shouldDisable_unguarded(enabled, total, max) == total >= max
shouldDisable_late(enabled, total, max) == enabled /\ total > max

\* self.loggingEnabled && (self.totalRetries >= (self.maximumAttempts))
shouldDisable(enabled, total, max) == enabled /\ total >= max

shouldDecay_strict(delay, retries) ==
  delay < maxDelayBetweenReconnection /\ retries > attemptsBeforeDecay
shouldDecay_uncapped(delay, retries) == retries >= attemptsBeforeDecay

\* (self.connectionDelay < self.maxDelayBetweenReconnection) &&
\* (self.currentRetries >= self.attemptsBeforeDecay)
shouldDecay(delay, retries) ==
  delay < maxDelayBetweenReconnection /\ retries >= attemptsBeforeDecay

TimerFire ==
  /\ pc = "ready"
  /\ timers > 0
  /\ lastOp' = "timer"
  /\ timers' = timers - 1
  /\ totalRetries' = totalRetries + 1
  /\ IF shouldDecay(connectionDelay, currentRetries + 1)
       THEN /\ connectionDelay' = connectionDelay * 2
            /\ currentRetries' = 0
       ELSE /\ connectionDelay' = connectionDelay
            /\ currentRetries' = currentRetries + 1
  \* connectStream()
  /\ stream' = NewSlot(sock)
  /\ sock' = [sock EXCEPT ![NewSlot(sock)] = "connecting"]
  /\ pend' = [pend EXCEPT ![NewSlot(sock)] = << >>]
  /\ IF shouldDisable(loggingEnabled, totalRetries + 1, maximumAttempts)
       THEN /\ loggingEnabled' = FALSE
            /\ emitted' = << "buffering disabled" >>
       ELSE /\ loggingEnabled' = loggingEnabled
            /\ emitted' = << >>
  /\ cb' = << >>
  /\ UNCHANGED << pc, config, buffer, wire, logCount, thrown, owed, enc >>

\* ------------------------------------------------------------- 'end'
StreamEnd_counted(s) ==
  /\ pc = "ready"
  /\ sock[s] \in {"connecting", "connected"}
  /\ Occupancy < MaxStreams
  /\ totalRetries < RetryCap(attemptsBeforeDecay)
  /\ lastOp' = "end"
  /\ LET sk == [sock EXCEPT ![s] = "ended"]
     IN /\ stream' = NewSlot(sk)
        /\ sock' = [sk EXCEPT ![NewSlot(sk)] = "connecting"]
        /\ pend' = [pend EXCEPT ![s] = << >>, ![NewSlot(sk)] = << >>]
  /\ emitted' = << >>
  /\ cb' = << >>
  /\ totalRetries' = totalRetries + 1
  /\ currentRetries' = currentRetries + 1
  /\ UNCHANGED << pc, config, connectionDelay,
                  buffer, loggingEnabled, wire, timers, logCount, thrown, owed, enc >>

StreamEnd(s) ==
  /\ pc = "ready"
  /\ sock[s] \in {"connecting", "connected"}
  /\ Occupancy < MaxStreams
  /\ lastOp' = "end"
  /\ LET sk == [sock EXCEPT ![s] = "ended"]
     IN \* connectStream()
        /\ stream' = NewSlot(sk)
        /\ sock' = [sk EXCEPT ![NewSlot(sk)] = "connecting"]
        /\ pend' = [pend EXCEPT ![s] = << >>, ![NewSlot(sk)] = << >>]
  /\ emitted' = << >>
  /\ cb' = << >>
  /\ UNCHANGED << pc, config, connectionDelay, currentRetries, totalRetries,
                  buffer, loggingEnabled, wire, timers, logCount, thrown, owed, enc >>

\* an ended socket closes without any further event; no handler runs
StreamClose(s) ==
  /\ pc = "ready"
  /\ sock[s] = "ended"
  /\ sock' = [sock EXCEPT ![s] = "free"]
  /\ UNCHANGED << pc, config, connectionDelay, currentRetries, totalRetries,
                  buffer, loggingEnabled, stream, pend, wire, timers, logCount,
                  lastOp, emitted, cb, thrown, owed, enc >>

\* ------------------------------------------------------------- log
Ack == [ err |-> "null", result |-> TRUE ]

logAck_fallthrough(enabled) == IF ~enabled THEN << Ack, Ack >> ELSE << Ack >>

\* the callback invocations of one log call: `return callback(null, true)' on
\* the drop path, `callback(null, true)' after sendMessage otherwise
logAck(enabled) == IF ~enabled THEN << Ack >> ELSE << Ack >>

logDrops_never(enabled) == FALSE

\* if (!this.loggingEnabled) return callback(null, true)
logDrops(enabled) == ~enabled

\* sendMessage: the encoded record of message m goes to the stream if it is
\* writable, else to the buffer if buffering is enabled, else nowhere
sendMessage(m) ==
  IF writable(stream, sock)
    THEN /\ wire' = WireAfterWrite(stream, sock, wire, << m >>)
         /\ pend' = PendAfterWrite(stream, sock, pend, << m >>)
         /\ buffer' = buffer
    ELSE IF loggingEnabled
      THEN /\ buffer' = buffer \o << m >>
           /\ UNCHANGED << wire, pend >>
      ELSE UNCHANGED << wire, pend, buffer >>

Log ==
  /\ pc = "ready"
  /\ logCount < MaxLogs
  /\ lastOp' = "log"
  /\ logCount' = logCount + 1
  /\ IF logDrops(loggingEnabled)
       THEN UNCHANGED << wire, pend, buffer >>
       ELSE sendMessage(logCount + 1)
  /\ cb' = logAck(loggingEnabled)
  /\ emitted' = << >>
  /\ owed' = IF loggingEnabled /\ ~Connected(stream, sock)
               THEN owed \cup {logCount + 1} ELSE owed
  /\ UNCHANGED << pc, config, connectionDelay, currentRetries, totalRetries,
                  loggingEnabled, stream, sock, timers, thrown, enc >>

\* ------------------------------------------------------------- Spec
Next ==
  \/ \E opts \in OptionSets : Construct(opts)
  \/ \E s \in Slots : StreamConnect(s)
  \/ \E s \in Slots : StreamError(s)
  \/ \E s \in Slots : StreamEnd(s)
  \/ \E s \in Slots : StreamClose(s)
  \/ TimerFire
  \/ Log

Spec == Init /\ [][Next]_vars

\* ------------------------------------------------------------- fairness
\* the event loop runs every armed reconnect timer
FairSpec == Spec /\ WF_vars(TimerFire)

\* an extended outage: besides the timers, every socket eventually gets its
\* next network event and every ended socket eventually closes
OutageSpec ==
  /\ FairSpec
  /\ \A s \in Slots : WF_vars(StreamConnect(s) \/ StreamError(s) \/ StreamEnd(s))
  /\ \A s \in Slots : WF_vars(StreamClose(s))

\* the reconnection path alone: a transport whose caller logs nothing
BackoffNext ==
  \/ \E opts \in BackoffOptionSets : Construct(opts)
  \/ \E s \in Slots : StreamConnect(s)
  \/ \E s \in Slots : StreamError(s)
  \/ \E s \in Slots : StreamEnd(s)
  \/ \E s \in Slots : StreamClose(s)
  \/ TimerFire

BackoffSpec == Init /\ [][BackoffNext]_vars

\* ------------------------------------------------------------- encoder
LevelNames == {"emerg", "alert", "crit", "error", "warning", "notice", "info", "debug"}
UnknownLevels == {"warn", "silly"}

levelMap ==
  [ l \in LevelNames |->
      CASE l = "emerg" -> 0 [] l = "alert" -> 1 [] l = "crit" -> 2
        [] l = "error" -> 3 [] l = "warning" -> 4 [] l = "notice" -> 5
        [] l = "info" -> 6 [] l = "debug" -> 7 ]

DefaultSeverity == 6
UserFacility == 8

\* return levelMap[level] || 6
getPriority(level) ==
  IF level \in DOMAIN levelMap THEN OrDefault(levelMap[level], DefaultSeverity)
  ELSE DefaultSeverity

\* javascript values: messages and metadata objects
Messages ==
  { [ type |-> "string", text |-> "hello" ],
    [ type |-> "string", text |-> "" ],
    [ type |-> "number", text |-> "42" ] }
Metas ==
  { [ defined |-> FALSE, fields |-> {} ],
    [ defined |-> TRUE, fields |-> {} ],
    [ defined |-> TRUE, fields |-> { << "user", [ type |-> "string", text |-> "bob" ] >> } ] }

\* truthiness of a message value
Truthy(v) == ~(v.type = "string" /\ v.text = "") /\ ~(v.type = "number" /\ v.text = "0")

\* JSON.stringify of one value: strings are quoted, numbers are not
JSONValue(v) == [ quoted |-> (v.type = "string"), text |-> v.text ]

\* the default logFormat: the JSON text of meta, with message under log_msg
logFormat(message, meta) ==
  LET m0 == IF meta.defined THEN meta.fields ELSE {}
      m1 == IF Truthy(message)
              THEN { f \in m0 : f[1] # "log_msg" } \cup { << "log_msg", message >> }
              ELSE m0
  IN { << f[1], JSONValue(f[2]) >> : f \in m1 }

EncInit ==
  /\ NotConstructed
  /\ enc \in [ phase : {"call"}, level : LevelNames \cup UnknownLevels,
               message : Messages, meta : Metas ]

\* util.inspect(value): the textual representation, a string
inspect(v) == [ type |-> "string", text |-> v.text ]

\* var output = msg; if (typeof(output) !== 'string') output = util.inspect(output)
logOutput(msg) == IF msg.type # "string" THEN inspect(msg) ELSE msg

\* this.sendMessage(level, msg, meta): the message argument of the call
handedToSendMessage(msg, output) == msg

\* log computes output and calls sendMessage, which builds the wire record
Encode ==
  /\ enc.phase = "call"
  /\ enc' = [ phase |-> "sent", level |-> enc.level, message |-> enc.message,
              meta |-> enc.meta,
              handed |-> handedToSendMessage(enc.message, logOutput(enc.message)),
              priVal |-> UserFacility + getPriority(enc.level),
              body |-> logFormat(handedToSendMessage(enc.message, logOutput(enc.message)),
                                 enc.meta) ]
  /\ UNCHANGED << pc, config, connectionDelay, currentRetries, totalRetries,
                  buffer, loggingEnabled, stream, sock, pend, wire, timers,
                  logCount, lastOp, emitted, cb, thrown, owed >>

EncNext == Encode

EncSpec == EncInit /\ [][EncNext]_vars

\* ============================================================= claims
Ready == pc = "ready"
LogStep == lastOp' = "log" /\ logCount' = logCount + 1
TimerStep == lastOp' = "timer" /\ timers' = timers - 1
ConnectStep ==
  lastOp' = "connect" /\ \E s \in Slots : sock[s] = "connecting" /\ sock'[s] = "connected"
EndStep ==
  lastOp' = "end" /\ \E s \in Slots : sock[s] \in {"connecting", "connected"} /\ sock'[s] = "ended"
Count(seq, m) == Cardinality({ i \in 1..Len(seq) : seq[i] = m })
Disabled == "buffering disabled"
Notes(e, n) == Cardinality({ i \in 1..Len(e) : e[i] = n })

\* C1: the messages on the wire appear in the order in which log was called
\* (message n is the one logged by the n-th call).
C1_WireInLogOrder ==
  \A i, j \in 1..Len(wire) : i < j => wire[i] < wire[j]

\* C2: every log call invokes the callback exactly once, with (null, true),
\* whatever the state of the transport, and throws nothing.
C2_LogAcknowledged ==
  lastOp = "log" => cb = << Ack >> /\ thrown = ""

C2_Witness ==
  /\ lastOp = "log" /\ cb = << Ack >>
  /\ ~loggingEnabled /\ ~Connected(stream, sock)

\* C3: at a handshake success every message logged while not connected and
\* while buffering was enabled is on the wire exactly once, written with the
\* whole buffer to the connection that just succeeded, and the buffer is empty.
C3_OwedDelivered ==
  [][ConnectStep =>
        /\ buffer' = << >>
        /\ \A m \in owed : Count(wire', m) = 1
        /\ \E s \in Slots : /\ sock[s] = "connecting" /\ sock'[s] = "connected"
                            /\ wire' = (wire \o pend[s]) \o buffer]_vars

\* C4: a log call made while buffering is disabled and no connection exists
\* changes nothing of the transport, writes nothing, emits nothing, and still
\* acknowledges.
C4_DropFrame ==
  [][(LogStep /\ ~loggingEnabled /\ ~(\E s \in Slots : sock[s] = "connected")) =>
        /\ UNCHANGED << buffer, stream, sock, pend, wire, timers, currentRetries,
                        totalRetries, connectionDelay, loggingEnabled >>
        /\ emitted' = << >>
        /\ cb' = << Ack >>]_vars

C4_Witness ==
  /\ lastOp = "log" /\ ~loggingEnabled
  /\ ~(\E s \in Slots : sock[s] = "connected")
  /\ stream # NoStream /\ sock[stream] = "connecting"
  /\ \A i \in 1..Len(wire) : wire[i] # logCount
  /\ \A i \in 1..Len(buffer) : buffer[i] # logCount
  /\ \A s \in Slots : pend[s] = << >>

\* C5: with maximumAttempts = N, a counted failed attempt (a reconnect timer
\* firing) leaves buffering enabled while fewer than N were counted, disables
\* it with exactly one 'buffering disabled' notification at the N-th, emits no
\* such notification after the N-th, and never changes the buffer contents.
C5_DisableOnce ==
  [][TimerStep =>
        /\ buffer' = buffer
        /\ totalRetries' < maximumAttempts =>
              loggingEnabled /\ loggingEnabled' /\ Notes(emitted', Disabled) = 0
        /\ totalRetries' = maximumAttempts =>
              loggingEnabled /\ ~loggingEnabled' /\ Notes(emitted', Disabled) = 1
        /\ totalRetries' > maximumAttempts =>
              ~loggingEnabled /\ ~loggingEnabled' /\ Notes(emitted', Disabled) = 0]_vars

C5_Witness ==
  /\ lastOp = "timer" /\ totalRetries > maximumAttempts
  /\ ~loggingEnabled /\ emitted = << >> /\ buffer # << >>

\* C6 as stated: in every run in which no connection attempt succeeds,
\* buffering is eventually disabled, whether the attempts fail by stream error
\* or by stream end.
C6_EventuallyDisabled ==
  (Ready /\ lastOp = "construct") ~> (lastOp = "connect" \/ ~loggingEnabled)

\* C6 as amended: buffering is disabled once maximumAttempts reconnect timers
\* have fired since the last successful connection (attempts that fail by
\* stream end arm no timer, are not counted and change neither the counter nor
\* the flag), and while buffering is disabled no log call grows the buffer.
C6_DisabledAfterCountedFailures ==
  /\ [](Ready /\ totalRetries >= maximumAttempts => ~loggingEnabled)
  /\ [][EndStep => UNCHANGED << totalRetries, loggingEnabled >>]_vars
  /\ [][~loggingEnabled /\ LogStep => buffer' = buffer]_vars

C6_Witness ==
  /\ lastOp = "log" /\ ~loggingEnabled /\ totalRetries >= maximumAttempts
  /\ buffer # << >> /\ logCount = MaxLogs

\* C7: there are never two connection attempts or connections open at once,
\* nor two reconnect timers pending at once.
C7_SingleConnection ==
  Cardinality(Open(sock)) <= 1 /\ timers <= 1

\* C8: a constructed transport always has a connection, an attempt or a timer
\* pending; a stream end and a timer firing start a new attempt in the same
\* step; and after a stream error a reconnect timer fires, whatever the number
\* of failures so far and whether or not buffering is disabled.
C8_AlwaysReconnects ==
  /\ [](Ready => Open(sock) # {} \/ timers > 0)
  /\ [](lastOp \in {"end", "timer"} => stream # NoStream /\ sock[stream] = "connecting")
  /\ (lastOp = "error") ~> (lastOp = "timer")

C8_Witness ==
  /\ lastOp = "timer" /\ ~loggingEnabled /\ totalRetries > maximumAttempts
  /\ stream # NoStream /\ sock[stream] = "connecting"

\* C9: the PRIORITY of the encoded record is 8 + the mapped number for a known
\* level name and 8 + 6 for an unknown one.
C9_Priority ==
  enc.phase = "sent" =>
    enc.priVal = 8 + (IF enc.level \in LevelNames THEN levelMap[enc.level] ELSE 6)

BaseDelay == OrDefault(options.connectionDelay, DefaultConnectionDelay)

\* C11: after every successful connection currentRetries and totalRetries are
\* 0 and connectionDelay is the base value given in the configuration.
C11_ConnectResets ==
  lastOp = "connect" =>
    currentRetries = 0 /\ totalRetries = 0 /\ connectionDelay = BaseDelay

\* C12: a counted failed attempt adds exactly 1 to totalRetries and to
\* currentRetries; connectionDelay is then doubled and currentRetries reset to
\* 0 iff connectionDelay < maxDelayBetweenReconnection and currentRetries >=
\* attemptsBeforeDecay, else connectionDelay is unchanged.  From delay 1000
\* with attemptsBeforeDecay = 5, five consecutive failures give delay 2000 and
\* currentRetries 0.
C12_Backoff ==
  /\ [][TimerStep =>
          /\ totalRetries' = totalRetries + 1
          /\ IF connectionDelay < maxDelayBetweenReconnection
                  /\ currentRetries + 1 >= attemptsBeforeDecay
               THEN connectionDelay' = 2 * connectionDelay /\ currentRetries' = 0
               ELSE connectionDelay' = connectionDelay
                      /\ currentRetries' = currentRetries + 1
          /\ (connectionDelay >= maxDelayBetweenReconnection =>
                connectionDelay' = connectionDelay)]_vars
  /\ [](Ready /\ attemptsBeforeDecay = 5 /\ BaseDelay = 1000 =>
          /\ totalRetries < 5 => connectionDelay = 1000 /\ currentRetries = totalRetries
          /\ totalRetries = 5 => connectionDelay = 2000 /\ currentRetries = 0)

C12_Witness ==
  /\ lastOp = "timer" /\ attemptsBeforeDecay = 5 /\ BaseDelay = 1000
  /\ totalRetries = 5 /\ connectionDelay = 2000 /\ currentRetries = 0

C14_DelayBelowTwiceMax ==
  (Ready /\ BaseDelay < maxDelayBetweenReconnection) =>
    connectionDelay < 2 * maxDelayBetweenReconnection

ErrorStep == lastOp' = "error" /\ timers' = timers + 1
Opened == { s \in Slots : sock[s] # "connecting" /\ sock'[s] = "connecting" }

\* C15: a stream end opens the new attempt in the same step, arms no timer and
\* leaves totalRetries, currentRetries, connectionDelay, the buffer and the
\* buffering flag unchanged; a stream error opens no attempt, only its timer
\* step does, and the retry counters grow in timer steps only.
C15_EndVersusError ==
  /\ [][EndStep =>
          /\ Opened = {stream'} /\ timers' = timers
          /\ UNCHANGED << totalRetries, currentRetries, connectionDelay, buffer,
                          loggingEnabled >>]_vars
  /\ [][ErrorStep =>
          /\ Opened = {} /\ stream' = stream
          /\ UNCHANGED << totalRetries, currentRetries, connectionDelay, buffer,
                          loggingEnabled >>]_vars
  /\ [][TimerStep => Opened = {stream'}]_vars
  /\ [][(totalRetries' > totalRetries \/ currentRetries' > currentRetries) =>
          TimerStep]_vars

C15_Witness ==
  /\ lastOp = "end" /\ timers = 0 /\ totalRetries > 0 /\ currentRetries > 0
  /\ stream # NoStream /\ sock[stream] = "connecting" /\ buffer # << >>

C17_Routing ==
  [][(LogStep /\ loggingEnabled) =>
        IF Connected(stream, sock)
          THEN wire' = wire \o << logCount' >> /\ buffer' = buffer /\ pend' = pend
          ELSE buffer' = buffer \o << logCount' >> /\ wire' = wire /\ pend' = pend]_vars

\* C18: the message handed to the formatting function and encoded in the
\* record is the message itself when it is a string and its inspected
\* (textual) representation otherwise.
C18_NonStringInspected ==
  enc.phase = "sent" =>
    LET expected == IF enc.message.type = "string" THEN enc.message
                    ELSE [ type |-> "string", text |-> enc.message.text ]
    IN enc.handed = expected /\ enc.body = logFormat(expected, enc.meta)

\* C19: between events, buffering is disabled exactly when totalRetries has
\* reached maximumAttempts.
C19_DisabledIffMaxReached ==
  Ready => (~loggingEnabled <=> totalRetries >= maximumAttempts)

C19_Witness ==
  /\ Ready /\ lastOp = "end" /\ ~loggingEnabled
  /\ totalRetries >= maximumAttempts /\ buffer # << >>

\* C20: whenever the transport's current stream is connected, the pending
\* buffer is empty and buffering is enabled.
C20_ConnectedMeansDrained ==
  Connected(stream, sock) => buffer = << >> /\ loggingEnabled

C20_Witness ==
  /\ Connected(stream, sock) /\ lastOp = "connect"
  /\ buffer = << >> /\ loggingEnabled /\ Len(wire) >= 2 /\ owed = {}
  /\ \E t \in Slots : t # stream /\ sock[t] = "connected"

====
